---- MODULE Spec2Model ----
(***************************************************************************)
(* Model of the feature-flag client SDK (src/sdk/feature-flag-sdk.js):     *)
(* the result cache, the local snapshot and its refresh, local rule        *)
(* evaluation, the remote fallback and the typed accessors.                *)
(*                                                                         *)
(* JavaScript values are records [t, v]: t is the runtime type tag and v   *)
(* the payload.  A string is a sequence of character tokens.               *)
(***************************************************************************)
EXTENDS Integers, Sequences, FiniteSets, TLC

VARIABLES
    context,                \* this.context: sequence of <<key, value>> in insertion order
    cache,                  \* this.cache: cacheKey -> [value, timestamp]
    cacheTime,              \* this.cacheTime
    enableLocalEvaluation,  \* this.enableLocalEvaluation
    localFlags,             \* this.localFlags: JSNull, Undefined or a sequence of flags
    remoteFlags,            \* the flag collection held by the remote service
    pendingEval,            \* evaluateFlag calls suspended at the evaluate fetch
    pendingRefresh,         \* refreshLocalFlags calls suspended at the snapshot fetch, in
                            \* the order they were issued: what the service serves, and
                            \* whether a fetch issued later has been installed already
    now,                    \* Date.now()
    calls,                  \* number of API calls made so far
    last,                   \* the API call that completed in the step just taken (NoCall
                            \* when none did), with what it gave its caller
    ctxVersion,             \* number of setContext calls so far
    changes,                \* the collections the remote service held before the current
                            \* one, oldest first, each with the time it was replaced
    formData,               \* FlagEditor: the form's variations and default_variation_id
    formError,              \* FlagEditor: its error state
    flagList,               \* FeatureFlagAdmin: the flags state, flag key -> enabled
    adminError,             \* FeatureFlagAdmin: its error state
    serverFlags,            \* the flags of the management API, flag key -> enabled
    pendingPut              \* toggleFlagStatus and saveFlag calls suspended at api.put

vars == <<context, cache, cacheTime, enableLocalEvaluation, localFlags, remoteFlags,
          pendingEval, pendingRefresh, now, calls, last, ctxVersion, changes,
          formData, formError, flagList, adminError, serverFlags, pendingPut>>

\* the state of the admin UI (src/unnamed/part_000)
uiVars == <<formData, formError, flagList, adminError, serverFlags, pendingPut>>

\* the state of the client SDK except its clock
sdkVars == <<context, cache, cacheTime, enableLocalEvaluation, localFlags, remoteFlags,
             pendingEval, pendingRefresh, calls, last, ctxVersion, changes>>

----------------------------------------------------------------------------
(* Bounds of the model *)

MaxTime == 1
MaxCacheTime == 2
MaxCalls == 2
MaxPending == 1
MaxRefresh == 1
MaxSetContext == 1
MaxChanges == 1
MaxRefreshTime == 2
MaxInFlight == 2
MaxConcurrent == 2
MaxVariations == 3
MaxPuts == 2

----------------------------------------------------------------------------
(* JavaScript values *)

Undefined == [t |-> "undefined", v |-> 0]
JSNull == [t |-> "null", v |-> 0]
JSTrue == [t |-> "boolean", v |-> 1]
JSFalse == [t |-> "boolean", v |-> 0]
JSNum(n) == [t |-> "number", v |-> n]
JSStr(s) == [t |-> "string", v |-> s]
JSObj(f) == [t |-> "object", v |-> f]

\* typeof x
Typeof(x) == IF x.t = "null" THEN "object" ELSE x.t

\* the truthiness used by &&, || and if
Truthy(x) ==
    CASE x.t = "undefined" -> FALSE
      [] x.t = "null" -> FALSE
      [] x.t = "boolean" -> x.v = 1
      [] x.t = "number" -> x.v # 0
      [] x.t = "string" -> Len(x.v) > 0
      [] OTHER -> TRUE

\* a === b ; two objects are distinct references (one from the context, one from the flag)
StrictEq(a, b) ==
    /\ a.t = b.t
    /\ a.t # "object"
    /\ a.v = b.v

\* obj[name] on an object value
GetProp(obj, name) ==
    IF obj.t = "object" /\ name \in DOMAIN obj.v THEN obj.v[name] ELSE Undefined

----------------------------------------------------------------------------
(* The context object {...} with its keys in insertion order *)

\* context[key]
CtxGet(ctx, key) ==
    IF \E i \in 1..Len(ctx) : ctx[i][1] = key
    THEN LET i == CHOOSE j \in 1..Len(ctx) : ctx[j][1] = key IN ctx[i][2]
    ELSE Undefined

CtxHas(ctx, key) == \E i \in 1..Len(ctx) : ctx[i][1] = key

\* { ...a, ...b }: a's keys keep their place and take b's value, b's new keys follow
Spread(a, b) ==
    [i \in 1..Len(a) |-> IF CtxHas(b, a[i][1]) THEN <<a[i][1], CtxGet(b, a[i][1])>> ELSE a[i]]
    \o SelectSeq(b, LAMBDA p : ~CtxHas(a, p[1]))

\* JSON.stringify(context): keys in insertion order, undefined-valued keys dropped
JSONstringify(ctx) == SelectSeq(ctx, LAMBDA p : p[2].t # "undefined")

\* `${flagKey}-${JSON.stringify(this.context)}`
CacheKey(flagKey, ctx) == <<flagKey, JSONstringify(ctx)>>

----------------------------------------------------------------------------
(* String and number conversions used by the rule operators *)

Digits == <<"0", "1", "2", "3", "4", "5", "6", "7", "8", "9">>

IsDigit(c) == \E d \in 1..10 : Digits[d] = c

DigitVal(c) == (CHOOSE d \in 1..10 : Digits[d] = c) - 1

RECURSIVE DecimalOf(_)
\* the decimal digits of a natural number
DecimalOf(n) == IF n < 10 THEN <<Digits[n + 1]>> ELSE DecimalOf(n \div 10) \o <<Digits[(n % 10) + 1]>>

\* String(x), the conversion String.prototype.includes applies to its argument
ToStringJS(x) ==
    CASE x.t = "string" -> x.v
      [] x.t = "number" -> IF x.v < 0 THEN <<"-">> \o DecimalOf(0 - x.v) ELSE DecimalOf(x.v)
      [] x.t = "boolean" -> IF x.v = 1 THEN <<"t", "r", "u", "e">> ELSE <<"f", "a", "l", "s", "e">>
      [] x.t = "null" -> <<"n", "u", "l", "l">>
      [] x.t = "undefined" -> <<"u", "n", "d", "e", "f", "i", "n", "e", "d">>
      [] OTHER -> <<"[", "o", "b", "j", "e", "c", "t", " ", "O", "b", "j", "e", "c", "t", "]">>

RECURSIVE DigitsToNat(_)
DigitsToNat(s) == IF Len(s) = 0 THEN 0 ELSE DigitsToNat(SubSeq(s, 1, Len(s) - 1)) * 10 + DigitVal(s[Len(s)])

\* Number(x), the conversion < and > apply to a non-number operand; nan marks NaN
ToNumberJS(x) ==
    CASE x.t = "number" -> [nan |-> FALSE, n |-> x.v]
      [] x.t = "boolean" -> [nan |-> FALSE, n |-> x.v]
      [] x.t = "null" -> [nan |-> FALSE, n |-> 0]
      [] x.t = "string" ->
            IF \A i \in 1..Len(x.v) : IsDigit(x.v[i])
            THEN [nan |-> FALSE, n |-> DigitsToNat(x.v)]
            ELSE [nan |-> TRUE, n |-> 0]
      [] OTHER -> [nan |-> TRUE, n |-> 0]

\* s.includes(sub) on strings
Includes(s, sub) ==
    \E i \in 1..(Len(s) + 1) : i + Len(sub) - 1 <= Len(s) /\ SubSeq(s, i, i + Len(sub) - 1) = sub

----------------------------------------------------------------------------
(* Flags, variations and rules as the snapshot endpoint delivers them *)

Variation(id, type, value) == [id |-> id, value |-> [type |-> type, value |-> value]]

UserRule(id, userIds, variationId) ==
    [id |-> id, type |-> "user", user_ids |-> userIds, percentage |-> 0,
     attribute |-> "", operator |-> "", value |-> Undefined, variation_id |-> variationId]

AttributeRule(id, attribute, operator, value, variationId) ==
    [id |-> id, type |-> "attribute", user_ids |-> {}, percentage |-> 0,
     attribute |-> attribute, operator |-> operator, value |-> value, variation_id |-> variationId]

PercentageRule(id, percentage, variationId) ==
    [id |-> id, type |-> "percentage", user_ids |-> {}, percentage |-> percentage,
     attribute |-> "", operator |-> "", value |-> Undefined, variation_id |-> variationId]

Flag(key, enabled, variations, defaultId, rules) ==
    [key |-> key, enabled |-> enabled, variations |-> variations,
     default_variation_id |-> defaultId, rules |-> rules]

\* array.find(pred): index of the first element satisfying pred, 0 when none does
FindIndex(seq, Pred(_)) ==
    IF \E i \in 1..Len(seq) : Pred(seq[i])
    THEN CHOOSE i \in 1..Len(seq) : Pred(seq[i]) /\ \A j \in 1..(i - 1) : ~Pred(seq[j])
    ELSE 0

\* flag.variations.find(v => v.id === id)
FindVariation(flag, id) == FindIndex(flag.variations, LAMBDA v : v.id = id)

----------------------------------------------------------------------------
(* Local evaluation *)

\* a user rule that matches whoever the user is, once there is one
evaluateRuleLocally_AnyUser(rule, ctx) ==
    LET userId == CtxGet(ctx, "userId")
        attributes == CtxGet(ctx, "attributes")
        userValue == GetProp(attributes, rule.attribute)
    IN  IF rule.type = "user" /\ Truthy(userId)
        THEN TRUE
        ELSE IF rule.type = "attribute" /\ rule.attribute # "" /\ rule.operator # ""
                /\ Truthy(attributes)
        THEN CASE rule.operator = "equals" -> StrictEq(userValue, rule.value)
               [] rule.operator = "contains" /\ Typeof(userValue) = "string" ->
                      Includes(userValue.v, ToStringJS(rule.value))
               [] rule.operator = "greater_than" /\ Typeof(userValue) = "number" ->
                      /\ ~ToNumberJS(rule.value).nan
                      /\ userValue.v > ToNumberJS(rule.value).n
               [] rule.operator = "less_than" /\ Typeof(userValue) = "number" ->
                      /\ ~ToNumberJS(rule.value).nan
                      /\ userValue.v < ToNumberJS(rule.value).n
               [] OTHER -> FALSE
        ELSE FALSE

\* attribute operators without their typeof tests: the attribute is converted instead
evaluateRuleLocally_LooseTypes(rule, ctx) ==
    LET userId == CtxGet(ctx, "userId")
        attributes == CtxGet(ctx, "attributes")
        userValue == GetProp(attributes, rule.attribute)
    IN  IF rule.type = "user" /\ Truthy(userId)
        THEN userId.t = "string" /\ userId.v \in rule.user_ids
        ELSE IF rule.type = "attribute" /\ rule.attribute # "" /\ rule.operator # ""
                /\ Truthy(attributes)
        THEN CASE rule.operator = "equals" -> StrictEq(userValue, rule.value)
               [] rule.operator = "contains" ->
                      Includes(ToStringJS(userValue), ToStringJS(rule.value))
               [] rule.operator = "greater_than" ->
                      /\ ~ToNumberJS(userValue).nan /\ ~ToNumberJS(rule.value).nan
                      /\ ToNumberJS(userValue).n > ToNumberJS(rule.value).n
               [] rule.operator = "less_than" ->
                      /\ ~ToNumberJS(userValue).nan /\ ~ToNumberJS(rule.value).nan
                      /\ ToNumberJS(userValue).n < ToNumberJS(rule.value).n
               [] OTHER -> FALSE
        ELSE FALSE

\* evaluateRuleLocally(rule) against this.context
evaluateRuleLocally(rule, ctx) ==
    LET userId == CtxGet(ctx, "userId")
        attributes == CtxGet(ctx, "attributes")
        userValue == GetProp(attributes, rule.attribute)
    IN  IF rule.type = "user" /\ Truthy(userId)
        THEN userId.t = "string" /\ userId.v \in rule.user_ids
        ELSE IF rule.type = "attribute" /\ rule.attribute # "" /\ rule.operator # ""
                /\ Truthy(attributes)
        THEN CASE rule.operator = "equals" -> StrictEq(userValue, rule.value)
               [] rule.operator = "contains" /\ Typeof(userValue) = "string" ->
                      Includes(userValue.v, ToStringJS(rule.value))
               [] rule.operator = "greater_than" /\ Typeof(userValue) = "number" ->
                      /\ ~ToNumberJS(rule.value).nan
                      /\ userValue.v > ToNumberJS(rule.value).n
               [] rule.operator = "less_than" /\ Typeof(userValue) = "number" ->
                      /\ ~ToNumberJS(rule.value).nan
                      /\ userValue.v < ToNumberJS(rule.value).n
               [] OTHER -> FALSE
        ELSE FALSE

\* an EvaluationResult object
Result(flagKey, variationId, value, reason) ==
    [flag_key |-> flagKey, variation_id |-> variationId, value |-> value, reason |-> reason]

\* the null that evaluateFlagLocally returns, and a response body that is JSON null
NullResult == Result("", "", Undefined, <<"", "">>)

DEFAULT_RULE == <<"DEFAULT_RULE", "">>

\* `RULE_MATCH:${rule.id || 'unknown'}`
RULE_MATCH(rule) == <<"RULE_MATCH", IF rule.id = "" THEN "unknown" ELSE rule.id>>

RECURSIVE RuleLoop(_, _, _)
\* the for loop over flag.rules from index i on: <<index of the variation, reason>> of the
\* rule it breaks at, <<0, DEFAULT_RULE>> when it runs to the end
RuleLoop(flag, ctx, i) ==
    IF i > Len(flag.rules) THEN <<0, DEFAULT_RULE>>
    ELSE LET rule == flag.rules[i]
             ruleVariation == FindVariation(flag, rule.variation_id)
         IN  IF evaluateRuleLocally(rule, ctx) /\ ruleVariation # 0
             THEN <<ruleVariation, RULE_MATCH(rule)>>
             ELSE RuleLoop(flag, ctx, i + 1)

\* evaluateFlagLocally without its test of flag.enabled
evaluateFlagLocally_IgnoreEnabled(flags, ctx, flagKey) ==
    LET f == FindIndex(flags, LAMBDA x : x.key = flagKey)
    IN  IF f = 0 THEN NullResult
        ELSE LET flag == flags[f]
                 d == FindVariation(flag, flag.default_variation_id)
                 default == IF d = 0 /\ Len(flag.variations) > 0 THEN 1 ELSE d
                 loop == RuleLoop(flag, ctx, 1)
                 selected == IF loop[1] # 0 THEN loop[1] ELSE default
             IN  IF selected = 0 THEN NullResult
                 ELSE Result(flagKey, flag.variations[selected].id,
                             flag.variations[selected].value.value, loop[2])

\* evaluateFlagLocally starting from variations[0] whatever default_variation_id says
evaluateFlagLocally_FirstVariation(flags, ctx, flagKey) ==
    LET f == FindIndex(flags, LAMBDA x : x.key = flagKey)
    IN  IF f = 0 \/ ~flags[f].enabled THEN NullResult
        ELSE LET flag == flags[f]
                 default == IF Len(flag.variations) > 0 THEN 1 ELSE 0
                 loop == RuleLoop(flag, ctx, 1)
                 selected == IF loop[1] # 0 THEN loop[1] ELSE default
             IN  IF selected = 0 THEN NullResult
                 ELSE Result(flagKey, flag.variations[selected].id,
                             flag.variations[selected].value.value, loop[2])

\* evaluateFlagLocally(flagKey) on the snapshot flags and this.context
evaluateFlagLocally(flags, ctx, flagKey) ==
    LET f == FindIndex(flags, LAMBDA x : x.key = flagKey)
    IN  IF f = 0 \/ ~flags[f].enabled THEN NullResult
        ELSE LET flag == flags[f]
                 d == FindVariation(flag, flag.default_variation_id)
                 default == IF d = 0 /\ Len(flag.variations) > 0 THEN 1 ELSE d
                 loop == RuleLoop(flag, ctx, 1)
                 selected == IF loop[1] # 0 THEN loop[1] ELSE default
             IN  IF selected = 0 THEN NullResult
                 ELSE Result(flagKey, flag.variations[selected].id,
                             flag.variations[selected].value.value, loop[2])

----------------------------------------------------------------------------
(* The inputs the model draws from *)

U1 == <<"u1">>
U2 == <<"u2">>
Gold == <<"g", "o">>

On == Variation("on", "boolean", JSTrue)
Off == Variation("off", "boolean", JSFalse)

\* the flag of the documented scenario: user u1 gets on, everybody else off
BetaOn == Flag("beta", TRUE, <<On, Off>>, "off", <<UserRule("r1", {U1}, "on")>>)

BetaOff == Flag("beta", FALSE, <<On, Off>>, "off", <<UserRule("r1", {U1}, "on")>>)

\* rule r1 points at a variation that was removed; the rule after it overlaps it
BetaDangling ==
    Flag("beta", TRUE, <<On, Variation("obj", "json", JSObj([a |-> JSNum(1)]))>>, "obj",
         <<UserRule("r1", {U1}, "gone"), UserRule("r2", {U1, U2}, "on")>>)

\* a number flag whose default does not resolve, with an attribute rule that has no id
GammaNum ==
    Flag("gamma", TRUE, <<Variation("n7", "number", JSNum(7)), Variation("s", "string", JSStr(Gold))>>,
         "missing", <<AttributeRule("", "tier", "equals", JSStr(Gold), "s")>>)

\* a flag without variations
GammaEmpty == Flag("gamma", TRUE, <<>>, "n7", <<>>)

FlagKeys == {"beta", "gamma"}

\* the flag that is read while the snapshot is followed through its refreshes
RefreshKeys == {"beta"}

\* the collections the remote service may hold
Collections == { <<BetaOn, GammaNum>>, <<BetaOff>>, <<BetaDangling, GammaEmpty>> }

\* flags that exercise one rule kind each
PlainOff == Flag("plain", TRUE, <<On, Off>>, "off", <<>>)
PlainOn == Flag("plain", TRUE, <<On, Off>>, "on", <<>>)
TierEq(value) ==
    Flag("eq", TRUE, <<On, Off>>, "off", <<AttributeRule("a1", "tier", "equals", value, "on")>>)
TierHas(value) ==
    Flag("has", TRUE, <<On, Off>>, "off", <<AttributeRule("a2", "tier", "contains", value, "on")>>)
TierGt(value) ==
    Flag("gt", TRUE, <<On, Off>>, "off",
         <<AttributeRule("a3", "tier", "greater_than", value, "on")>>)
TierLt(value) ==
    Flag("lt", TRUE, <<On, Off>>, "off", <<AttributeRule("a4", "tier", "less_than", value, "on")>>)
Pct(percentage) ==
    Flag("pct", TRUE, <<On, Off>>, "off", <<PercentageRule("p1", percentage, "on")>>)

RuleKeys == {"plain", "beta", "eq", "has", "gt", "lt", "pct"}

RuleCollections ==
    { <<PlainOff, BetaOn, TierEq(JSStr(Gold)), TierHas(JSStr(<<"g">>)), TierGt(JSNum(5)),
        TierLt(JSNum(5)), Pct(100)>>,
      <<PlainOn, BetaOn, TierEq(JSNum(7)), TierHas(JSStr(<<"7">>)), TierGt(JSNum(3)),
        TierLt(JSNum(7)), Pct(0)>> }

\* options.context: with or without a user, with or without attributes
UserParts == { <<>>, << <<"userId", JSStr(U1)>> >>, << <<"userId", JSStr(U2)>> >> }

AttributeParts ==
    { <<>>,
      << <<"attributes", JSObj(<<>>)>> >>,
      << <<"attributes", JSObj([tier |-> JSStr(Gold)])>> >>,
      << <<"attributes", JSObj([tier |-> JSStr(<<"7">>)])>> >>,
      << <<"attributes", JSObj([tier |-> JSNum(7)])>> >>,
      << <<"attributes", JSObj([tier |-> JSNum(3)])>> >> }

RuleContexts == { u \o a : u \in UserParts, a \in AttributeParts }

\* the patches given to setContext
Patches ==
    { << <<"userId", JSStr(U1)>> >>, << <<"userId", JSStr(U2)>> >>,
      << <<"userId", Undefined>> >>,
      << <<"attributes", JSObj([tier |-> JSStr(Gold)])>> >> }

\* the bodies the evaluate endpoint may answer with (JSON null among them)
RemoteBodies(flagKey) ==
    { NullResult,
      Result(flagKey, "on", JSTrue, DEFAULT_RULE),
      Result(flagKey, "j", JSNull, <<"REMOTE", "">>) }

Accessors == {"getBooleanValue", "getStringValue", "getNumberValue", "getJsonValue"}

\* the calls the engine specification makes
EngineOps == {"evaluateFlag", "getBooleanValue"}

\* the defaults a caller passes
DefaultsOf(op) ==
    CASE op = "getBooleanValue" -> {JSFalse}
      [] op = "getStringValue" -> {JSStr(<<"d">>)}
      [] op = "getNumberValue" -> {JSNum(0)}
      [] op = "getJsonValue" -> {JSObj([d |-> JSTrue])}
      [] OTHER -> {Undefined}

FetchFailures == {"network_error", "bad_status", "bad_body"}

----------------------------------------------------------------------------
(* The typed accessors *)

\* the JSON accessor testing typeof alone, which lets null through
TypeMatches_NullIsObject(op, value) ==
    CASE op = "getBooleanValue" -> Typeof(value) = "boolean"
      [] op = "getStringValue" -> Typeof(value) = "string"
      [] op = "getNumberValue" -> Typeof(value) = "number"
      [] op = "getJsonValue" -> Typeof(value) = "object"
      [] OTHER -> FALSE

\* the type test of each accessor on result.value
TypeMatches(op, value) ==
    CASE op = "getBooleanValue" -> Typeof(value) = "boolean"
      [] op = "getStringValue" -> Typeof(value) = "string"
      [] op = "getNumberValue" -> Typeof(value) = "number"
      [] op = "getJsonValue" -> value # JSNull /\ Typeof(value) = "object"
      [] OTHER -> FALSE

\* the accessors without their catch: a failure of evaluateFlag reaches the caller
Complete_NoCatch(op, threw, result, def) ==
    [outcome |-> IF threw \/ (op # "evaluateFlag" /\ result = NullResult) THEN "throw" ELSE "return",
     value |-> IF op = "evaluateFlag" \/ threw \/ result = NullResult THEN Undefined
               ELSE IF TypeMatches(op, result.value) THEN result.value ELSE def]

\* what a call of op gives its caller once evaluateFlag has thrown (threw) or returned result:
\* the accessors catch everything, a null result included, and substitute the default
Complete(op, threw, result, def) ==
    IF op = "evaluateFlag"
    THEN [outcome |-> IF threw THEN "throw" ELSE "return", value |-> Undefined]
    ELSE [outcome |-> "return",
          value |-> IF threw \/ result = NullResult THEN def
                    ELSE IF TypeMatches(op, result.value) THEN result.value ELSE def]

----------------------------------------------------------------------------
(* The client *)

NoCall ==
    [n |-> 0, op |-> "", flagKey |-> "", def |-> Undefined, cacheKey |-> <<"", <<>> >>,
     hadEntry |-> FALSE, storedAt |-> 0, startedAt |-> 0, path |-> "",
     threw |-> FALSE, outcome |-> "", result |-> NullResult, value |-> Undefined]

\* cache.set(key, {value, timestamp})
CacheSet(c, key, value, timestamp) ==
    [k \in DOMAIN c \cup {key} |->
        IF k = key THEN [value |-> value, timestamp |-> timestamp] ELSE c[k]]

\* the freshness test with >= for >: an entry of age ttl still counts
CacheFresh_Inclusive(c, key, t, ttl) == key \in DOMAIN c /\ c[key].timestamp >= t - ttl

\* cachedResult && cachedResult.timestamp > Date.now() - this.cacheTime
CacheFresh(c, key, t, ttl) == key \in DOMAIN c /\ c[key].timestamp > t - ttl

RemoveAt(seq, i) == SubSeq(seq, 1, i - 1) \o SubSeq(seq, i + 1, Len(seq))

\* the snapshot fetches still outstanding once fetch i has settled; when its response was
\* installed, the fetches issued before it are marked as overtaken
Outstanding(pend, i, installed) ==
    [j \in 1..(Len(pend) - 1) |->
        IF installed /\ j < i THEN [pend[j] EXCEPT !.overtaken = TRUE]
        ELSE RemoveAt(pend, i)[j]]

\* the record of call c once evaluateFlag has thrown or returned result on the given path
Done(c, path, threw, result) ==
    [n |-> c.n, op |-> c.op, flagKey |-> c.flagKey, def |-> c.def, cacheKey |-> c.cacheKey,
     hadEntry |-> c.hadEntry, storedAt |-> c.storedAt, startedAt |-> c.startedAt, path |-> path,
     threw |-> threw, outcome |-> Complete(c.op, threw, result, c.def).outcome,
     result |-> result, value |-> Complete(c.op, threw, result, c.def).value]

\* the body of the evaluate request
RequestBody(ctx) ==
    [user_id |-> CtxGet(ctx, "userId"), session_id |-> CtxGet(ctx, "sessionId"),
     attributes |-> IF Truthy(CtxGet(ctx, "attributes")) THEN CtxGet(ctx, "attributes")
                    ELSE JSObj(<<>>)]

\* the admin UI before it is mounted
NoForm == [variations |-> <<>>, default_variation_id |-> <<0, 0>>]

UiIdle ==
    /\ formData = NoForm
    /\ formError = ""
    /\ flagList = <<>>
    /\ adminError = ""
    /\ serverFlags = <<>>
    /\ pendingPut = <<>>

\* constructor: with local evaluation enabled the first refresh is already in flight
Init ==
    /\ context = <<>>
    /\ cache = <<>>
    /\ cacheTime \in 1..MaxCacheTime
    /\ enableLocalEvaluation \in BOOLEAN
    /\ localFlags = JSNull
    /\ remoteFlags \in Collections
    /\ pendingEval = <<>>
    /\ pendingRefresh = IF enableLocalEvaluation THEN <<[served |-> remoteFlags, overtaken |-> FALSE]>> ELSE <<>>
    /\ now = 0
    /\ calls = 0
    /\ last = NoCall
    /\ ctxVersion = 0
    /\ changes = <<>>
    /\ UiIdle

\* Date.now() is one unit later
ClockStep ==
    /\ now' = now + 1
    /\ last' = NoCall
    /\ UNCHANGED <<context, cache, cacheTime, enableLocalEvaluation, localFlags, remoteFlags,
                   pendingEval, pendingRefresh, calls, ctxVersion, changes>>
    /\ UNCHANGED uiVars

\* the clock advances
Tick == now < MaxTime /\ ClockStep

\* the clock advances, over the longer horizon of the refresh specifications
LongTick == now < MaxRefreshTime /\ ClockStep

\* the flag collection of the remote service is edited
RemoteChange(c) ==
    /\ Len(changes) < MaxChanges
    /\ c # remoteFlags
    /\ remoteFlags' = c
    /\ changes' = Append(changes, [flags |-> remoteFlags, until |-> now])
    /\ last' = NoCall
    /\ UNCHANGED <<context, cache, cacheTime, enableLocalEvaluation, localFlags,
                   pendingEval, pendingRefresh, now, calls, ctxVersion>>
    /\ UNCHANGED uiVars

\* setContext that merges the patch and leaves the cache alone
setContext_NoClear(patch) ==
    /\ ctxVersion < MaxSetContext
    /\ context' = Spread(context, patch)
    /\ ctxVersion' = ctxVersion + 1
    /\ last' = NoCall
    /\ UNCHANGED <<cache, cacheTime, enableLocalEvaluation, localFlags, remoteFlags,
                   pendingEval, pendingRefresh, now, calls, changes>>
    /\ UNCHANGED uiVars

\* setContext(patch)
setContext(patch) ==
    /\ ctxVersion < MaxSetContext
    /\ context' = Spread(context, patch)
    /\ cache' = <<>>
    /\ ctxVersion' = ctxVersion + 1
    /\ last' = NoCall
    /\ UNCHANGED <<cacheTime, enableLocalEvaluation, localFlags, remoteFlags,
                   pendingEval, pendingRefresh, now, calls, changes>>
    /\ UNCHANGED uiVars

\* refreshLocalFlags is called and runs up to its fetch
StartRefresh ==
    /\ enableLocalEvaluation
    /\ pendingRefresh' = Append(pendingRefresh, [served |-> remoteFlags, overtaken |-> FALSE])
    /\ last' = NoCall
    /\ UNCHANGED <<context, cache, cacheTime, enableLocalEvaluation, localFlags, remoteFlags,
                   pendingEval, now, calls, ctxVersion, changes>>
    /\ UNCHANGED uiVars

\* the interval timer calls refreshLocalFlags, the fetch before it having settled
refreshLocalFlags == Len(pendingRefresh) < MaxRefresh /\ StartRefresh

\* the interval timer calls refreshLocalFlags, whatever fetches are outstanding
intervalRefresh == Len(pendingRefresh) < MaxInFlight /\ StartRefresh

\* what a refresh that settled with outcome gave: it resolves whatever happened
RefreshDone(outcome) ==
    [NoCall EXCEPT !.op = "refreshLocalFlags",
                   !.path = IF outcome \in FetchFailures THEN "failed" ELSE outcome,
                   !.threw = outcome \in FetchFailures, !.outcome = "return"]

\* a refresh whose failure drops the held snapshot
refreshSettles_ClearOnFailure(i, outcome) ==
    /\ i \in 1..Len(pendingRefresh)
    /\ localFlags' = CASE outcome = "ok" -> JSObj(pendingRefresh[i].served)
                       [] outcome = "ok_noflags" -> Undefined
                       [] OTHER -> JSNull
    /\ pendingRefresh' = Outstanding(pendingRefresh, i, outcome = "ok")
    /\ last' = RefreshDone(outcome)
    /\ UNCHANGED <<context, cache, cacheTime, enableLocalEvaluation, remoteFlags,
                   pendingEval, now, calls, ctxVersion, changes>>
    /\ UNCHANGED uiVars

\* a refresh that installs only the first flag of the fetched collection
refreshSettles_Partial(i, outcome) ==
    /\ i \in 1..Len(pendingRefresh)
    /\ localFlags' = CASE outcome = "ok" -> JSObj(SubSeq(pendingRefresh[i].served, 1, 1))
                       [] outcome = "ok_noflags" -> Undefined
                       [] OTHER -> localFlags
    /\ pendingRefresh' = Outstanding(pendingRefresh, i, outcome = "ok")
    /\ last' = RefreshDone(outcome)
    /\ UNCHANGED <<context, cache, cacheTime, enableLocalEvaluation, remoteFlags,
                   pendingEval, now, calls, ctxVersion, changes>>
    /\ UNCHANGED uiVars

\* a refresh that empties the result cache when it installs a snapshot
refreshSettles_ClearCache(i, outcome) ==
    /\ i \in 1..Len(pendingRefresh)
    /\ localFlags' = CASE outcome = "ok" -> JSObj(pendingRefresh[i].served)
                       [] outcome = "ok_noflags" -> Undefined
                       [] OTHER -> localFlags
    /\ cache' = IF outcome = "ok" THEN <<>> ELSE cache
    /\ pendingRefresh' = Outstanding(pendingRefresh, i, outcome = "ok")
    /\ last' = RefreshDone(outcome)
    /\ UNCHANGED <<context, cacheTime, enableLocalEvaluation, remoteFlags,
                   pendingEval, now, calls, ctxVersion, changes>>
    /\ UNCHANGED uiVars

\* a refresh that keeps the first snapshot it obtained
refreshSettles_KeepFirst(i, outcome) ==
    /\ i \in 1..Len(pendingRefresh)
    /\ localFlags' = CASE outcome = "ok" /\ ~Truthy(localFlags) ->
                            JSObj(pendingRefresh[i].served)
                       [] outcome = "ok_noflags" -> Undefined
                       [] OTHER -> localFlags
    /\ pendingRefresh' = Outstanding(pendingRefresh, i, outcome = "ok")
    /\ last' = RefreshDone(outcome)
    /\ UNCHANGED <<context, cache, cacheTime, enableLocalEvaluation, remoteFlags,
                   pendingEval, now, calls, ctxVersion, changes>>
    /\ UNCHANGED uiVars

\* the snapshot fetch of refresh i settles: "ok" is a body with flags, "ok_noflags" a
\* well-formed body without a flags field, the rest are caught and logged
refreshSettles(i, outcome) ==
    /\ i \in 1..Len(pendingRefresh)
    /\ localFlags' = CASE outcome = "ok" -> JSObj(pendingRefresh[i].served)
                       [] outcome = "ok_noflags" -> Undefined
                       [] OTHER -> localFlags
    /\ pendingRefresh' = Outstanding(pendingRefresh, i, outcome = "ok")
    /\ last' = RefreshDone(outcome)
    /\ UNCHANGED <<context, cache, cacheTime, enableLocalEvaluation, remoteFlags,
                   pendingEval, now, calls, ctxVersion, changes>>
    /\ UNCHANGED uiVars

\* the local attempt of evaluateFlag: null unless local evaluation is on and a snapshot is held
LocalResult(flagKey) ==
    IF enableLocalEvaluation /\ Truthy(localFlags)
    THEN evaluateFlagLocally(localFlags.v, context, flagKey)
    ELSE NullResult

\* a hit that rewrites the entry with a new timestamp (sliding expiry)
CacheHit_Touch(call) ==
    /\ cache' = CacheSet(cache, call.cacheKey, cache[call.cacheKey].value, now)
    /\ last' = Done(call, "hit", FALSE, cache[call.cacheKey].value)
    /\ UNCHANGED pendingEval

\* evaluateFlag finds an unexpired entry and returns its value
CacheHit(call) ==
    /\ last' = Done(call, "hit", FALSE, cache[call.cacheKey].value)
    /\ UNCHANGED <<cache, pendingEval>>

\* the local path returning its result without caching it
LocalPath_NoStore(call, localResult) ==
    /\ last' = Done(call, "local", FALSE, localResult)
    /\ UNCHANGED <<cache, pendingEval>>

\* evaluateFlag caches and returns the local result
LocalPath(call, localResult) ==
    /\ cache' = CacheSet(cache, call.cacheKey, localResult, now)
    /\ last' = Done(call, "local", FALSE, localResult)
    /\ UNCHANGED pendingEval

\* no fallback for a flag the snapshot holds but local evaluation gave up on: it throws
RemotePath_Surface(call) ==
    IF enableLocalEvaluation /\ Truthy(localFlags)
       /\ FindIndex(localFlags.v, LAMBDA f : f.key = call.flagKey) # 0
    THEN /\ last' = Done(call, "local", TRUE, NullResult)
         /\ UNCHANGED <<cache, pendingEval>>
    ELSE /\ pendingEval' = Append(pendingEval, call)
         /\ last' = NoCall
         /\ UNCHANGED cache

\* evaluateFlag falls back to the server: it posts the context and suspends
RemotePath(call) ==
    /\ pendingEval' = Append(pendingEval, call)
    /\ last' = NoCall
    /\ UNCHANGED cache

\* op(flagKey, def) is called and evaluateFlag runs up to its return or its fetch
evaluateFlag(op, flagKey, def) ==
    LET cacheKey == CacheKey(flagKey, context)
        hadEntry == cacheKey \in DOMAIN cache
        call == [n |-> calls + 1, op |-> op, flagKey |-> flagKey, def |-> def,
                 cacheKey |-> cacheKey, hadEntry |-> hadEntry,
                 storedAt |-> IF hadEntry THEN cache[cacheKey].timestamp ELSE 0,
                 startedAt |-> now, body |-> RequestBody(context)]
    IN  /\ calls < MaxCalls
        /\ calls' = calls + 1
        /\ IF CacheFresh(cache, cacheKey, now, cacheTime) THEN CacheHit(call)
           ELSE IF LocalResult(flagKey) # NullResult THEN LocalPath(call, LocalResult(flagKey))
           ELSE RemotePath(call)
        /\ UNCHANGED <<context, cacheTime, enableLocalEvaluation, localFlags, remoteFlags,
                       pendingRefresh, now, ctxVersion, changes>>
        /\ UNCHANGED uiVars

\* the evaluate fetch of suspended call i fails: evaluateFlag logs and rethrows
evaluateFails(i, failure) ==
    /\ i \in 1..Len(pendingEval)
    /\ last' = Done(pendingEval[i], "remote", TRUE, NullResult)
    /\ pendingEval' = RemoveAt(pendingEval, i)
    /\ UNCHANGED <<context, cache, cacheTime, enableLocalEvaluation, localFlags, remoteFlags,
                   pendingRefresh, now, calls, ctxVersion, changes>>
    /\ UNCHANGED uiVars

\* an answer that is cached only when the key has no entry yet (first write wins)
evaluateAnswers_FirstWins(i, body) ==
    /\ i \in 1..Len(pendingEval)
    /\ body \in RemoteBodies(pendingEval[i].flagKey)
    /\ cache' = IF pendingEval[i].cacheKey \in DOMAIN cache THEN cache
                ELSE CacheSet(cache, pendingEval[i].cacheKey, body, now)
    /\ last' = Done(pendingEval[i], "remote", FALSE, body)
    /\ pendingEval' = RemoveAt(pendingEval, i)
    /\ UNCHANGED <<context, cacheTime, enableLocalEvaluation, localFlags, remoteFlags,
                   pendingRefresh, now, calls, ctxVersion, changes>>
    /\ UNCHANGED uiVars

\* an answer that is cached under the key of the context current at its arrival
evaluateAnswers_CurrentKey(i, body) ==
    /\ i \in 1..Len(pendingEval)
    /\ body \in RemoteBodies(pendingEval[i].flagKey)
    /\ cache' = CacheSet(cache, CacheKey(pendingEval[i].flagKey, context), body, now)
    /\ last' = Done(pendingEval[i], "remote", FALSE, body)
    /\ pendingEval' = RemoveAt(pendingEval, i)
    /\ UNCHANGED <<context, cacheTime, enableLocalEvaluation, localFlags, remoteFlags,
                   pendingRefresh, now, calls, ctxVersion, changes>>
    /\ UNCHANGED uiVars

\* the evaluate fetch of suspended call i answers with a parsed body: cached and returned
evaluateAnswers(i, body) ==
    /\ i \in 1..Len(pendingEval)
    /\ body \in RemoteBodies(pendingEval[i].flagKey)
    /\ cache' = CacheSet(cache, pendingEval[i].cacheKey, body, now)
    /\ last' = Done(pendingEval[i], "remote", FALSE, body)
    /\ pendingEval' = RemoveAt(pendingEval, i)
    /\ UNCHANGED <<context, cacheTime, enableLocalEvaluation, localFlags, remoteFlags,
                   pendingRefresh, now, calls, ctxVersion, changes>>
    /\ UNCHANGED uiVars

Next ==
    \/ Tick
    \/ \E patch \in Patches : setContext(patch)
    \/ refreshLocalFlags
    \/ \E i \in 1..MaxRefresh, outcome \in FetchFailures \cup {"ok", "ok_noflags"} :
            refreshSettles(i, outcome)
    \/ \E op \in EngineOps, flagKey \in FlagKeys : \E def \in DefaultsOf(op) :
            evaluateFlag(op, flagKey, def) /\ Len(pendingEval') <= MaxPending
    \/ \E i \in 1..MaxPending, failure \in FetchFailures : evaluateFails(i, failure)
    \/ \E i \in 1..MaxPending, flagKey \in FlagKeys : \E body \in RemoteBodies(flagKey) :
            evaluateAnswers(i, body)

\* the engine: raw evaluation and one accessor, with the context, the clock and the
\* snapshot moving under them
Spec == Init /\ [][Next]_vars

\* the typed accessors against a remote collection that stays as it is
NextTyped ==
    \/ Tick
    \/ \E patch \in Patches : setContext(patch)
    \/ \E i \in 1..MaxRefresh, outcome \in FetchFailures \cup {"ok", "ok_noflags"} :
            refreshSettles(i, outcome)
    \/ \E op \in Accessors, flagKey \in FlagKeys : \E def \in DefaultsOf(op) :
            evaluateFlag(op, flagKey, def) /\ Len(pendingEval') <= MaxPending
    \/ \E i \in 1..MaxPending, failure \in FetchFailures : evaluateFails(i, failure)
    \/ \E i \in 1..MaxPending, flagKey \in FlagKeys : \E body \in RemoteBodies(flagKey) :
            evaluateAnswers(i, body)

SpecTyped == Init /\ [][NextTyped]_vars

\* the snapshot against a remote collection that is edited: refreshes overlap, the clock
\* runs past a refresh interval, and raw evaluateFlag reads the snapshot
NextRefresh ==
    \/ LongTick
    \/ \E c \in Collections : RemoteChange(c)
    \/ intervalRefresh
    \/ \E i \in 1..MaxInFlight, outcome \in FetchFailures \cup {"ok", "ok_noflags"} :
            refreshSettles(i, outcome)
    \/ \E flagKey \in RefreshKeys :
            evaluateFlag("evaluateFlag", flagKey, Undefined) /\ Len(pendingEval') <= MaxPending
    \/ \E i \in 1..MaxPending, failure \in FetchFailures : evaluateFails(i, failure)
    \/ \E i \in 1..MaxPending, flagKey \in FlagKeys : \E body \in RemoteBodies(flagKey) :
            evaluateAnswers(i, body)

SpecRefresh == Init /\ [][NextRefresh]_vars

\* raw evaluateFlag calls whose remote requests are outstanding together and are answered
\* in any order while the clock runs
NextConcurrent ==
    \/ Tick
    \/ \E flagKey \in FlagKeys :
            evaluateFlag("evaluateFlag", flagKey, Undefined)
               /\ Len(pendingEval') <= MaxConcurrent
    \/ \E i \in 1..MaxConcurrent, failure \in FetchFailures : evaluateFails(i, failure)
    \/ \E i \in 1..MaxConcurrent, flagKey \in FlagKeys : \E body \in RemoteBodies(flagKey) :
            evaluateAnswers(i, body)

SpecConcurrent == Init /\ [][NextConcurrent]_vars

\* constructor with options.context and local evaluation on, for the rule kinds
InitRules ==
    /\ context \in RuleContexts
    /\ cache = <<>>
    /\ cacheTime \in 1..MaxCacheTime
    /\ enableLocalEvaluation = TRUE
    /\ localFlags = JSNull
    /\ remoteFlags \in RuleCollections
    /\ pendingEval = <<>>
    /\ pendingRefresh = <<[served |-> remoteFlags, overtaken |-> FALSE]>>
    /\ now = 0
    /\ calls = 0
    /\ last = NoCall
    /\ ctxVersion = 0
    /\ changes = <<>>
    /\ UiIdle

\* local evaluation of one flag per rule kind under each context
NextRules ==
    \/ \E i \in 1..MaxRefresh, outcome \in FetchFailures \cup {"ok", "ok_noflags"} :
            refreshSettles(i, outcome)
    \/ \E flagKey \in RuleKeys :
            evaluateFlag("evaluateFlag", flagKey, Undefined) /\ Len(pendingEval') <= MaxPending
    \/ \E i \in 1..MaxPending, flagKey \in RuleKeys : \E body \in RemoteBodies(flagKey) :
            evaluateAnswers(i, body)

SpecRules == InitRules /\ [][NextRules]_vars

\* the interval timer keeps firing and a fetch that can succeed does so in the end
Fairness ==
    /\ WF_vars(intervalRefresh)
    /\ SF_vars(\E i \in 1..MaxInFlight : refreshSettles(i, "ok"))

SpecLive == Init /\ [][NextRefresh]_vars /\ Fairness

----------------------------------------------------------------------------
(* The admin UI (src/unnamed/part_000): the flag editor and the flag list *)

\* the page holds no SDK client
SdkIdle ==
    /\ context = <<>>
    /\ cache = <<>>
    /\ cacheTime = 1
    /\ enableLocalEvaluation = FALSE
    /\ localFlags = JSNull
    /\ remoteFlags = <<>>
    /\ pendingEval = <<>>
    /\ pendingRefresh = <<>>
    /\ now = 0
    /\ calls = 0
    /\ last = NoCall
    /\ ctxVersion = 0
    /\ changes = <<>>

\* a variation id: `var-${stamp}-${n}` of the new-flag template, `var-${stamp}` (n = 0)
\* of addVariation
VarId(stamp, n) == <<stamp, n>>

\* a variation of the form; name is the number in `Variation ${name}`
FormVariation(id, name) == [id |-> id, name |-> name]

\* the flags handed to the editor: the new-flag template, a flag whose default is its
\* second variation, a flag with a single variation
EditorFlags ==
    { [variations |-> <<FormVariation(VarId(0, 1), 1), FormVariation(VarId(0, 2), 2)>>,
       default_variation_id |-> VarId(0, 1)],
      [variations |-> <<FormVariation(VarId(0, 1), 1), FormVariation(VarId(0, 2), 2)>>,
       default_variation_id |-> VarId(0, 2)],
      [variations |-> <<FormVariation(VarId(0, 1), 1)>>,
       default_variation_id |-> VarId(0, 1)] }

\* FlagEditor is mounted: formData copies the flag, error is null
InitEditor ==
    /\ SdkIdle
    /\ formData \in EditorFlags
    /\ formError = ""
    /\ flagList = <<>>
    /\ adminError = ""
    /\ serverFlags = <<>>
    /\ pendingPut = <<>>

\* the Add Variation button
addVariation ==
    /\ Len(formData.variations) < MaxVariations
    /\ formData' = [formData EXCEPT !.variations =
                        Append(@, FormVariation(VarId(now, 0), Len(formData.variations) + 1))]
    /\ UNCHANGED <<formError, flagList, adminError, serverFlags, pendingPut>>
    /\ UNCHANGED <<sdkVars, now>>

\* removeVariation that leaves default_variation_id as it was
removeVariation_KeepDefault(index) ==
    /\ index \in 1..Len(formData.variations)
    /\ IF Len(formData.variations) <= 1
       THEN /\ formError' = "Cannot remove the last variation"
            /\ UNCHANGED formData
       ELSE /\ formData' = [formData EXCEPT !.variations = RemoveAt(formData.variations, index)]
            /\ UNCHANGED formError
    /\ UNCHANGED <<flagList, adminError, serverFlags, pendingPut>>
    /\ UNCHANGED <<sdkVars, now>>

\* the Remove button of the variation at index (1-based here)
removeVariation(index) ==
    /\ index \in 1..Len(formData.variations)
    /\ IF Len(formData.variations) <= 1
       THEN /\ formError' = "Cannot remove the last variation"
            /\ UNCHANGED formData
       ELSE LET updatedVariations == RemoveAt(formData.variations, index)
                removedVariation == formData.variations[index]
            IN  /\ formData' = [variations |-> updatedVariations,
                                default_variation_id |->
                                    IF removedVariation.id = formData.default_variation_id
                                    THEN updatedVariations[1].id
                                    ELSE formData.default_variation_id]
                /\ UNCHANGED formError
    /\ UNCHANGED <<flagList, adminError, serverFlags, pendingPut>>
    /\ UNCHANGED <<sdkVars, now>>

\* the Default Variation radio button of the variation at index
selectDefault(index) ==
    /\ index \in 1..Len(formData.variations)
    /\ formData' = [formData EXCEPT !.default_variation_id = formData.variations[index].id]
    /\ UNCHANGED <<formError, flagList, adminError, serverFlags, pendingPut>>
    /\ UNCHANGED <<sdkVars, now>>

NextEditor ==
    \/ Tick
    \/ addVariation
    \/ \E index \in 1..MaxVariations : removeVariation(index)
    \/ \E index \in 1..MaxVariations : selectDefault(index)

SpecEditor == InitEditor /\ [][NextEditor]_vars

\* the keys of the flags in the list
AdminKeys == {"a", "b"}

\* fetchFlags has loaded the list: it shows what the management API holds
InitAdmin ==
    /\ SdkIdle
    /\ formData = NoForm
    /\ formError = ""
    /\ serverFlags \in [AdminKeys -> BOOLEAN]
    /\ flagList = serverFlags
    /\ adminError = ""
    /\ pendingPut = <<>>

\* toggleFlagStatus(flag) up to its await: the request carries the flag of the rendered
\* list with enabled negated, and the continuation keeps the flags of that render
toggleFlagStatus(key) ==
    /\ Len(pendingPut) < MaxPuts
    /\ pendingPut' = Append(pendingPut, [op |-> "toggleFlagStatus", key |-> key,
                                         enabled |-> ~flagList[key], flags |-> flagList])
    /\ UNCHANGED <<formData, formError, flagList, adminError, serverFlags>>
    /\ UNCHANGED <<sdkVars, now>>

\* saveFlag(updatedFlag) up to its await
saveFlag(key, enabled) ==
    /\ Len(pendingPut) < MaxPuts
    /\ pendingPut' = Append(pendingPut, [op |-> "saveFlag", key |-> key,
                                         enabled |-> enabled, flags |-> flagList])
    /\ UNCHANGED <<formData, formError, flagList, adminError, serverFlags>>
    /\ UNCHANGED <<sdkVars, now>>

\* the list a continuation sets: the flags of its render with its own flag replaced
UpdatedList(put) ==
    [k \in AdminKeys |->
        IF k = put.key
        THEN IF put.op = "toggleFlagStatus" THEN ~put.flags[k] ELSE put.enabled
        ELSE put.flags[k]]

\* api.put resolves: the server holds the flag sent, and the continuation sets the list
\* (saveFlag also clears the error)
putSucceeds(i) ==
    /\ i \in 1..Len(pendingPut)
    /\ serverFlags' = [serverFlags EXCEPT ![pendingPut[i].key] = pendingPut[i].enabled]
    /\ flagList' = UpdatedList(pendingPut[i])
    /\ adminError' = IF pendingPut[i].op = "saveFlag" THEN "" ELSE adminError
    /\ pendingPut' = RemoveAt(pendingPut, i)
    /\ UNCHANGED <<formData, formError>>
    /\ UNCHANGED <<sdkVars, now>>

\* api.put rejects: the catch block sets the error
putFails(i) ==
    /\ i \in 1..Len(pendingPut)
    /\ adminError' = IF pendingPut[i].op = "saveFlag" THEN "Failed to save flag"
                     ELSE "Failed to update flag status"
    /\ pendingPut' = RemoveAt(pendingPut, i)
    /\ UNCHANGED <<formData, formError, flagList, serverFlags>>
    /\ UNCHANGED <<sdkVars, now>>

NextAdmin ==
    \/ \E key \in AdminKeys : toggleFlagStatus(key)
    \/ \E key \in AdminKeys, enabled \in BOOLEAN : saveFlag(key, enabled)
    \/ \E i \in 1..MaxPuts : putSucceeds(i)
    \/ \E i \in 1..MaxPuts : putFails(i)

SpecAdmin == InitAdmin /\ [][NextAdmin]_vars

----------------------------------------------------------------------------
(* Properties *)

\* the flag the held snapshot has under flagKey, as an index into it (0 when absent)
SnapshotFlag(flagKey) ==
    IF Truthy(localFlags)
    THEN FindIndex(localFlags.v, LAMBDA f : f.key = flagKey)
    ELSE 0

\* C1: a typed accessor always completes with a value, never an exception, whatever the
\* cache, the snapshot and the remote service do; when evaluateFlag fails the value is
\* the caller's default.
C1_AccessorsNeverFail ==
    (last.n # 0 /\ last.op \in Accessors) =>
        /\ last.outcome = "return"
        /\ last.threw => last.value = last.def

\* the remote failure scenario: local evaluation off, the fetch failed, the default came back
C1_Witness ==
    /\ last.n # 0
    /\ last.op = "getBooleanValue"
    /\ ~enableLocalEvaluation
    /\ last.threw
    /\ last.value = JSFalse

\* the runtime type each accessor stands for
HasAccessorType(op, value) ==
    \/ op = "getBooleanValue" /\ value.t = "boolean"
    \/ op = "getStringValue" /\ value.t = "string"
    \/ op = "getNumberValue" /\ value.t = "number"
    \/ op = "getJsonValue" /\ value.t = "object"

\* C2: a typed accessor returns the resolved value exactly when its runtime type is the
\* accessor's type (a non-null structured value for JSON); for a value of any other type,
\* from the cache, local evaluation or the remote service, it returns the caller's default.
C2_TypeChecked ==
    (last.n # 0 /\ last.op \in Accessors /\ ~last.threw) =>
        last.value = IF last.result # NullResult /\ HasAccessorType(last.op, last.result.value)
                     THEN last.result.value
                     ELSE last.def

\* a cached number served to the string accessor, which answers with its default
C2_Witness ==
    /\ last.n # 0
    /\ last.path = "hit"
    /\ last.op = "getStringValue"
    /\ last.result.value.t = "number"
    /\ last.value = last.def

\* the held snapshot has flagKey and its enabled field is false
DisabledInSnapshot(flagKey) ==
    SnapshotFlag(flagKey) # 0 /\ ~localFlags.v[SnapshotFlag(flagKey)].enabled

MatchingRules(flag, ctx) == {i \in 1..Len(flag.rules) : evaluateRuleLocally(flag.rules[i], ctx)}

FirstMatch(flag, ctx) ==
    CHOOSE i \in MatchingRules(flag, ctx) : \A j \in MatchingRules(flag, ctx) : i <= j

\* the flag a call that completed locally was evaluated on
LocalFlag == localFlags.v[SnapshotFlag(last.flagKey)]

\* C4 as stated: a local RULE_MATCH:<id> names the lowest-index rule whose predicate holds
\* for the context, and with no matching rule the reason is DEFAULT_RULE.
C4_FirstMatchWins ==
    (last.n # 0 /\ last.path = "local") =>
        IF MatchingRules(LocalFlag, context) = {}
        THEN last.result.reason = DEFAULT_RULE
        ELSE last.result.reason[1] = "RULE_MATCH" =>
                last.result.reason = RULE_MATCH(LocalFlag.rules[FirstMatch(LocalFlag, context)])

\* C5 as stated: when the first rule whose predicate holds names a variation the flag does
\* not have, the result is the default variation with reason DEFAULT_RULE.
C5_DanglingRuleGivesDefault ==
    (/\ last.n # 0
     /\ last.path = "local"
     /\ MatchingRules(LocalFlag, context) # {}
     /\ FindVariation(LocalFlag, LocalFlag.rules[FirstMatch(LocalFlag, context)].variation_id) = 0)
    => /\ last.result.reason = DEFAULT_RULE
       /\ last.result.variation_id = LocalFlag.default_variation_id

\* the call whose synchronous part ran in this step: it completed, or it is the newest
\* suspended one
CallStarted == IF last'.n # 0 THEN last' ELSE pendingEval'[Len(pendingEval')]

\* C6: with the context unchanged, an entry stored at t0 is a hit (its value returned) at
\* every query time t with t - t0 < cacheTime and a miss at every t with t - t0 >= cacheTime.
C6_ExpiryByAge ==
    [][calls' = calls + 1 =>
        LET k == CacheKey(CallStarted.flagKey, context)
        IN  k \in DOMAIN cache =>
                IF now - cache[k].timestamp < cacheTime
                THEN last'.n # 0 /\ last'.path = "hit" /\ last'.result = cache[k].value
                ELSE ~(last'.n # 0 /\ last'.path = "hit")]_vars

\* a call found an entry of age >= cacheTime and evaluated afresh
C6_Witness ==
    /\ last.n # 0
    /\ last.hadEntry
    /\ last.startedAt - last.storedAt >= cacheTime
    /\ last.path = "local"

\* C7: setContext empties the cache, and a hit returns only what the cache holds, so no
\* result cached before a setContext is returned by a call started after it.
C7_SetContextInvalidates ==
    [][/\ ctxVersion' # ctxVersion => cache' = <<>>
       /\ (last'.n # 0 /\ last'.path = "hit") =>
             /\ last'.cacheKey \in DOMAIN cache
             /\ last'.result = cache[last'.cacheKey].value]_vars

\* after a setContext that makes rule r1 match, the second call found no entry and
\* evaluated for the new context
C7_Witness ==
    /\ ctxVersion = 1
    /\ last.n = 2
    /\ last.flagKey = "beta"
    /\ ~last.hadEntry
    /\ last.path = "local"
    /\ last.result.reason = <<"RULE_MATCH", "r1">>
    /\ DOMAIN cache = {last.cacheKey}

\* C8: on a hit evaluateFlag returns the stored result as it is, issues no remote request
\* and leaves the cache, the entry's timestamp included, unchanged.
C8_HitIsVerbatim ==
    [][(last'.n # 0 /\ last'.path = "hit") =>
          /\ last'.result = cache[CacheKey(last'.flagKey, context)].value
          /\ ~last'.threw
          /\ cache' = cache
          /\ pendingEval' = pendingEval]_vars

\* a hit on an aged entry that local evaluation would now answer differently: the stored
\* result came back and the entry kept its timestamp
C8_Witness ==
    /\ last.n # 0
    /\ last.path = "hit"
    /\ last.startedAt > last.storedAt
    /\ cache[last.cacheKey] = [value |-> last.result, timestamp |-> last.storedAt]
    /\ LocalResult(last.flagKey) \notin {NullResult, last.result}

\* the held snapshot has flagKey enabled with at least one variation
EvaluableLocally(flagKey) ==
    /\ enableLocalEvaluation
    /\ SnapshotFlag(flagKey) # 0
    /\ localFlags.v[SnapshotFlag(flagKey)].enabled
    /\ Len(localFlags.v[SnapshotFlag(flagKey)].variations) > 0

\* the cache has no unexpired entry under key
Miss(key) == key \notin DOMAIN cache \/ now - cache[key].timestamp >= cacheTime

\* C9: on a miss with local evaluation on and the flag enabled with a variation in the held
\* snapshot, evaluateFlag returns the local result, stores exactly it under (flag key,
\* context) with the current time, and issues no remote request.
C9_LocalPathCaches ==
    [][(/\ calls' = calls + 1
        /\ Miss(CacheKey(CallStarted.flagKey, context))
        /\ EvaluableLocally(CallStarted.flagKey)) =>
          /\ last'.n # 0
          /\ last'.path = "local"
          /\ ~last'.threw
          /\ last'.result = evaluateFlagLocally(localFlags.v, context, last'.flagKey)
          /\ cache' = [k \in DOMAIN cache \cup {CacheKey(last'.flagKey, context)} |->
                          IF k = CacheKey(last'.flagKey, context)
                          THEN [value |-> last'.result, timestamp |-> now]
                          ELSE cache[k]]
          /\ pendingEval' = pendingEval]_vars

\* a local result was returned and is the cache entry, with no request in flight
C9_Witness ==
    /\ last.n # 0
    /\ last.path = "local"
    /\ last.result.reason = DEFAULT_RULE
    /\ cache[last.cacheKey] = [value |-> last.result, timestamp |-> now]
    /\ pendingEval = <<>>

\* C10: on a miss a remote request is issued exactly when local evaluation is off, no
\* snapshot is held, or the snapshot has the flag absent, disabled or without a variation;
\* none of these is thrown to the caller when the call starts.
C10_RemoteFallback ==
    [][(calls' = calls + 1 /\ Miss(CacheKey(CallStarted.flagKey, context))) =>
          /\ (pendingEval' = Append(pendingEval, CallStarted))
                <=> ~EvaluableLocally(CallStarted.flagKey)
          /\ last'.n # 0 => ~last'.threw]_vars

\* a request is in flight for a flag that the held snapshot has disabled
C10_Witness ==
    /\ Len(pendingEval) > 0
    /\ enableLocalEvaluation
    /\ DisabledInSnapshot(pendingEval[1].flagKey)
    /\ pendingEval[1].body.user_id = CtxGet(context, "userId")

\* the reasons an EvaluationResult may carry
ResultReasons == {"RULE_MATCH", "DEFAULT_RULE", "REMOTE"}

\* C11: a result obtained through a successful remote evaluation is returned and cached
\* with reason REMOTE, whatever the body said, and every cached result has a reason among
\* RULE_MATCH:<id>, DEFAULT_RULE and REMOTE.
C11_RemoteTagged ==
    /\ (last.n # 0 /\ last.path = "remote" /\ ~last.threw) =>
          /\ last.result.reason[1] = "REMOTE"
          /\ last.cacheKey \in DOMAIN cache
          /\ cache[last.cacheKey].value = last.result
    /\ \A k \in DOMAIN cache : cache[k].value.reason[1] \in ResultReasons

\* a body with every field of an EvaluationResult
WellFormedResult(r) ==
    /\ r.flag_key # ""
    /\ r.variation_id # ""
    /\ r.value # Undefined
    /\ r.reason[1] \in ResultReasons

\* C12: when the remote evaluation of a raw evaluateFlag call fails (the fetch fails, the
\* status is not a success, or the body is not a well-formed EvaluationResult) the call
\* rejects and the step writes nothing to the cache.
C12_RemoteFailureRejects ==
    [][(/\ last'.n # 0
        /\ last'.path = "remote"
        /\ last'.op = "evaluateFlag"
        /\ last'.threw \/ ~WellFormedResult(last'.result)) =>
          /\ last'.outcome = "throw"
          /\ cache' = cache]_vars

\* C13: a refresh that settles resolves whatever happened and touches nothing an
\* evaluation caller sees (context, cache, suspended calls); when its fetch succeeded the
\* held collection becomes the fetched one (the flags of the body, none when the body has
\* no flags), and when it failed the held snapshot is exactly what it was.
C13_RefreshNeverRaises ==
    [][last'.op = "refreshLocalFlags" =>
          /\ last'.outcome = "return"
          /\ UNCHANGED <<context, cache, pendingEval, calls>>
          /\ \E i \in 1..Len(pendingRefresh) :
                /\ pendingRefresh' = Outstanding(pendingRefresh, i, last'.path = "ok")
                /\ localFlags' = CASE last'.path = "ok" -> JSObj(pendingRefresh[i].served)
                                   [] last'.path = "failed" -> localFlags
                                   [] OTHER -> Undefined]_vars

\* a refresh has just failed while a snapshot was held and an evaluation was suspended
C13_Witness ==
    /\ last.op = "refreshLocalFlags"
    /\ last.threw
    /\ Truthy(localFlags)
    /\ Len(changes) > 0
    /\ Len(pendingEval) > 0

\* C14: at most one snapshot fetch is outstanding at any time.
C14_OneRefreshInFlight == Len(pendingRefresh) <= 1

\* S is the remote collection as it was at some instant from t0 on
HeldSince(S, t0) ==
    \/ S = remoteFlags
    \/ \E i \in 1..Len(changes) : changes[i].flags = S /\ changes[i].until >= t0

\* C15: the snapshot a local evaluation reads is the remote collection as it was at some
\* instant no more than one refresh interval (cacheTime) before the read.
C15_StaleWithinInterval ==
    (last.n # 0 /\ last.path = "local") => HeldSince(localFlags.v, now - cacheTime)

\* C15 (amended): the snapshot a local evaluation reads is, whole, the remote collection as
\* it was at some instant up to the read, and the result is the local evaluation of it.
C15_SnapshotWasRemote ==
    (last.n # 0 /\ last.path = "local") =>
        /\ HeldSince(localFlags.v, 0)
        /\ last.result = evaluateFlagLocally(localFlags.v, context, last.flagKey)

\* a local evaluation read a snapshot that the remote service replaced more than one
\* refresh interval ago
C15_Witness ==
    /\ last.n # 0
    /\ last.path = "local"
    /\ localFlags.v # remoteFlags
    /\ \E i \in 1..Len(changes) :
          changes[i].flags = localFlags.v /\ changes[i].until < now - cacheTime

\* the held snapshot is the collection of the remote service
Converged == enableLocalEvaluation => localFlags = JSObj(remoteFlags)

SingleRule(flag, type) ==
    /\ Len(flag.rules) = 1
    /\ flag.rules[1].type = type
    /\ FindVariation(flag, flag.rules[1].variation_id) # 0
    /\ FindVariation(flag, flag.default_variation_id) # 0

\* the result that names variation id of flag with the given reason
ResultOf(flag, id, reason) ==
    Result(flag.key, id, flag.variations[FindVariation(flag, id)].value.value, reason)

\* C17: local evaluation of an enabled flag without rules whose default_variation_id
\* resolves returns that variation, its value and reason DEFAULT_RULE under every context.
C17_NoRulesGivesDefault ==
    (/\ last.n # 0
     /\ last.path = "local"
     /\ LocalFlag.rules = <<>>
     /\ FindVariation(LocalFlag, LocalFlag.default_variation_id) # 0) =>
        last.result = ResultOf(LocalFlag, LocalFlag.default_variation_id, DEFAULT_RULE)

\* a flag without rules whose default is not its first variation was evaluated for a user
C17_Witness ==
    /\ last.n # 0
    /\ last.path = "local"
    /\ LocalFlag = PlainOff
    /\ CtxHas(context, "userId")
    /\ last.result = Result("plain", "off", JSFalse, DEFAULT_RULE)

\* the context carries a user id that is one of rule.user_ids
UserIsMember(rule, ctx) ==
    /\ CtxHas(ctx, "userId")
    /\ CtxGet(ctx, "userId").t = "string"
    /\ CtxGet(ctx, "userId").v \in rule.user_ids

\* C18: a flag with one user rule gives the rule's variation with reason RULE_MATCH:<id>
\* exactly when the context carries a user id that is in user_ids, and the default
\* variation with reason DEFAULT_RULE otherwise (no user id, or one outside user_ids).
C18_UserRuleMatch ==
    (last.n # 0 /\ last.path = "local" /\ SingleRule(LocalFlag, "user")) =>
        /\ evaluateRuleLocally(LocalFlag.rules[1], context)
              <=> UserIsMember(LocalFlag.rules[1], context)
        /\ last.result =
              IF UserIsMember(LocalFlag.rules[1], context)
              THEN ResultOf(LocalFlag, LocalFlag.rules[1].variation_id,
                            RULE_MATCH(LocalFlag.rules[1]))
              ELSE ResultOf(LocalFlag, LocalFlag.default_variation_id, DEFAULT_RULE)

\* user u1 of user_ids got variation on by rule r1
C18_Witness ==
    /\ last.n # 0
    /\ last.path = "local"
    /\ LocalFlag = BetaOn
    /\ CtxGet(context, "userId") = JSStr(U1)
    /\ last.result = Result("beta", "on", JSTrue, <<"RULE_MATCH", "r1">>)

\* the context's attributes hold the rule's attribute and the operator comparison holds
AttributeHolds(rule, ctx) ==
    LET attributes == CtxGet(ctx, "attributes")
    IN  /\ attributes.t = "object"
        /\ rule.attribute \in DOMAIN attributes.v
        /\ LET v == attributes.v[rule.attribute]
           IN  CASE rule.operator = "equals" -> v = rule.value
                 [] rule.operator = "contains" ->
                        v.t = "string" /\ rule.value.t = "string" /\ Includes(v.v, rule.value.v)
                 [] rule.operator = "greater_than" ->
                        v.t = "number" /\ rule.value.t = "number" /\ v.v > rule.value.v
                 [] rule.operator = "less_than" ->
                        v.t = "number" /\ rule.value.t = "number" /\ v.v < rule.value.v
                 [] OTHER -> FALSE

\* C19: a flag with one attribute rule gives the rule's variation exactly when the
\* context's attributes hold the named attribute and the operator comparison holds on
\* it; with no attributes, without that attribute, or with an attribute whose type does
\* not fit the operator it gives the default, and the call does not fail.
C19_AttributeRuleMatch ==
    (last.n # 0 /\ last.path = "local" /\ SingleRule(LocalFlag, "attribute")) =>
        /\ evaluateRuleLocally(LocalFlag.rules[1], context)
              <=> AttributeHolds(LocalFlag.rules[1], context)
        /\ ~last.threw
        /\ last.result =
              IF AttributeHolds(LocalFlag.rules[1], context)
              THEN ResultOf(LocalFlag, LocalFlag.rules[1].variation_id,
                            RULE_MATCH(LocalFlag.rules[1]))
              ELSE ResultOf(LocalFlag, LocalFlag.default_variation_id, DEFAULT_RULE)

\* a numeric operator met a string attribute and the flag fell to its default
C19_Witness ==
    /\ last.n # 0
    /\ last.path = "local"
    /\ last.flagKey = "gt"
    /\ GetProp(CtxGet(context, "attributes"), "tier") = JSStr(<<"7">>)
    /\ last.result = Result("gt", "off", JSFalse, DEFAULT_RULE)

\* C20: a flag with one percentage rule gives the rule's variation to every context with
\* an identity when the percentage is 100, and to none when it is 0.
C20_PercentageRule ==
    (last.n # 0 /\ last.path = "local" /\ SingleRule(LocalFlag, "percentage")) =>
        /\ (LocalFlag.rules[1].percentage = 100 /\ CtxHas(context, "userId")) =>
              last.result = ResultOf(LocalFlag, LocalFlag.rules[1].variation_id,
                                     RULE_MATCH(LocalFlag.rules[1]))
        /\ LocalFlag.rules[1].percentage = 0 =>
              last.result = ResultOf(LocalFlag, LocalFlag.default_variation_id, DEFAULT_RULE)

\* C21: calls that miss are not merged: a call that misses and cannot be evaluated
\* locally posts its own request even when one for the same key is outstanding; each
\* answer completes its own call only, and writes its body under the call's key with the
\* time of its arrival over whatever an earlier answer left there (last write wins).
C21_LastWriteWins ==
    [][/\ (calls' = calls + 1 /\ Miss(CacheKey(CallStarted.flagKey, context))
              /\ ~EvaluableLocally(CallStarted.flagKey)) =>
              pendingEval' = Append(pendingEval, CallStarted)
       /\ (last'.n # 0 /\ last'.path = "remote" /\ ~last'.threw) =>
              /\ last'.cacheKey \in DOMAIN cache'
              /\ cache'[last'.cacheKey] = [value |-> last'.result, timestamp |-> now]
              /\ \E i \in 1..Len(pendingEval) :
                    /\ pendingEval[i].n = last'.n
                    /\ pendingEval' = RemoveAt(pendingEval, i)]_vars

\* the first of two calls was answered last, at a later time than it started, after the
\* second call; the entry under its key is its result with the time of this answer
C21_Witness ==
    /\ last.n = 1
    /\ last.path = "remote"
    /\ ~last.threw
    /\ ~last.hadEntry
    /\ calls = 2
    /\ pendingEval = <<>>
    /\ now > last.startedAt
    /\ DOMAIN cache = {last.cacheKey}
    /\ cache[last.cacheKey] = [value |-> last.result, timestamp |-> now]

\* C22: a snapshot refresh, from its call to the settling of its fetch, leaves the result
\* cache and the context as they are, whether it succeeds or fails.
C22_RefreshKeepsCache ==
    [][(pendingRefresh' # pendingRefresh \/ last'.op = "refreshLocalFlags") =>
          /\ cache' = cache
          /\ context' = context]_vars

\* a refresh installed a snapshot under which a cached result is no longer what local
\* evaluation gives, and the entry is still there
C22_Witness ==
    /\ last.op = "refreshLocalFlags"
    /\ last.path = "ok"
    /\ CtxHas(context, "userId")
    /\ \E k \in DOMAIN cache :
          /\ k = CacheKey(k[1], context)
          /\ EvaluableLocally(k[1])
          /\ cache[k].value # evaluateFlagLocally(localFlags.v, context, k[1])

\* C23: an entry is written under the fingerprint of the context its result was computed
\* for: a local result under the current context's key, a remote answer under the key the
\* call took when it started, whose request body was built from that same context,
\* whatever setContext has installed since.
C23_EntryMatchesKey ==
    [][\A k \in DOMAIN cache' :
          (k \notin DOMAIN cache \/ cache'[k] # cache[k]) =>
             \/ /\ last'.path = "local"
                /\ k = CacheKey(last'.flagKey, context)
                /\ cache'[k].value = evaluateFlagLocally(localFlags.v, context, last'.flagKey)
             \/ /\ last'.path = "remote"
                /\ \E i \in 1..Len(pendingEval) :
                      /\ pendingEval[i].n = last'.n
                      /\ k = pendingEval[i].cacheKey
                      /\ k[1] = pendingEval[i].flagKey
                      /\ pendingEval[i].body = RequestBody(k[2])]_vars

\* an answer arrived after setContext had replaced the context its request was built from,
\* and was stored under the key of the old context
C23_Witness ==
    /\ last.n # 0
    /\ last.path = "remote"
    /\ ~last.threw
    /\ last.cacheKey # CacheKey(last.flagKey, context)
    /\ last.cacheKey \in DOMAIN cache
    /\ CacheKey(last.flagKey, context) \notin DOMAIN cache

\* C24: the response of a fetch is never installed after that of a fetch issued later,
\* and a held snapshot is never lost.
C24_NoRegress ==
    [][/\ \A i \in 1..Len(pendingRefresh) :
             (/\ last'.op = "refreshLocalFlags"
              /\ last'.path = "ok"
              /\ pendingRefresh' = Outstanding(pendingRefresh, i, TRUE)
              /\ localFlags' = JSObj(pendingRefresh[i].served)) =>
                 ~pendingRefresh[i].overtaken
       /\ Truthy(localFlags) => Truthy(localFlags')]_vars

\* the form's variations are non-empty and its default is the id of one of them
Resolves(form) ==
    /\ Len(form.variations) > 0
    /\ \E i \in 1..Len(form.variations) : form.variations[i].id = form.default_variation_id

\* C25: in the flag editor, from a flag with variations whose default is one of them,
\* after any sequence of addVariation, removeVariation and default selection the
\* variations are non-empty and default_variation_id is the id of one of them; the
\* error appears only when the removal of the last variation is rejected, and that
\* changes nothing in the form; a removal happens only with more than one variation,
\* and removing the default makes the first remaining variation the default
C25_DefaultResolves ==
    /\ []Resolves(formData)
    /\ [][ /\ formError' # formError =>
                /\ Len(formData.variations) = 1
                /\ formError' = "Cannot remove the last variation"
                /\ formData' = formData
           /\ Len(formData'.variations) < Len(formData.variations) =>
                /\ Len(formData.variations) > 1
                /\ \E i \in 1..Len(formData.variations) :
                       /\ formData'.variations = RemoveAt(formData.variations, i)
                       /\ formData'.default_variation_id =
                              IF formData.variations[i].id = formData.default_variation_id
                              THEN formData'.variations[1].id
                              ELSE formData.default_variation_id
         ]_vars

\* every variation of the flag was removed, a variation added later is the only one
\* left and is the default, and its removal was rejected
C25_Witness ==
    /\ formError = "Cannot remove the last variation"
    /\ Len(formData.variations) = 1
    /\ formData.variations[1].id = VarId(1, 0)
    /\ formData.default_variation_id = VarId(1, 0)

\* C26: in the admin view the flag list changes only in the step in which an API call
\* succeeds, a failed call leaves the list as it was and sets the error, and once no
\* call is outstanding the enabled state shown for every flag is the state last written
\* to the server for it (no list update is lost to a call started from the same list)
C26_ListFollowsServer ==
    [][ /\ flagList' # flagList =>
              \E i \in 1..Len(pendingPut) :
                  /\ pendingPut' = RemoveAt(pendingPut, i)
                  /\ serverFlags' = [serverFlags EXCEPT ![pendingPut[i].key] = pendingPut[i].enabled]
        /\ (adminError' # adminError
                /\ adminError' \in {"Failed to save flag", "Failed to update flag status"}) =>
              /\ flagList' = flagList
              /\ serverFlags' = serverFlags
        /\ pendingPut' = <<>> => flagList' = serverFlags'
      ]_vars

====
